---- MODULE Spec2Model ----
(***************************************************************************)
(* Model of the backtest engine of main.py (run_backtest and the           *)
(* indicators it calls).                                                   *)
(*                                                                         *)
(* Numbers.  The program computes in Python floats.  The model computes in *)
(* exact rational arithmetic: a number is a pair <<n, d>> with d > 0 and   *)
(* gcd(n, d) = 1.  Rounding error of the floats is therefore not modelled; *)
(* every comparison and every equality below is the exact one.            *)
(*                                                                         *)
(* Indices.  Python lists are 0-based, TLA+ sequences 1-based.  The model  *)
(* keeps the program's 0-based indices (i, i-1, i-2) and reads element k   *)
(* of a list with At(list, k).                                             *)
(***************************************************************************)
EXTENDS Integers, Sequences, FiniteSets, TLC

(***************************************************************************)
(* Exact rationals                                                         *)
(***************************************************************************)
Abs(n) == IF n < 0 THEN -n ELSE n

RECURSIVE GCD(_, _)
GCD(a, b) == IF b = 0 THEN a ELSE GCD(b, a % b)

\* The rational n/d in lowest terms with a positive denominator (d # 0).
Rat(n, d) ==
    LET g == GCD(Abs(n), Abs(d))
        s == IF d < 0 THEN -1 ELSE 1
    IN  <<s * (n \div g), s * (d \div g)>>

RInt(k) == <<k, 1>>
Zero == RInt(0)
One == RInt(1)

RNeg(a) == <<-a[1], a[2]>>

RAdd(a, b) ==
    LET g == GCD(a[2], b[2])
        l == (a[2] \div g) * b[2]
    IN  Rat(a[1] * (l \div a[2]) + b[1] * (l \div b[2]), l)

RSub(a, b) == RAdd(a, RNeg(b))

\* Cross-cancelling before multiplying keeps the intermediate products small.
RMul(a, b) ==
    LET g1 == GCD(Abs(a[1]), b[2])
        g2 == GCD(Abs(b[1]), a[2])
    IN  <<(a[1] \div g1) * (b[1] \div g2), (a[2] \div g2) * (b[2] \div g1)>>

\* b # 0
RInv(b) == IF b[1] < 0 THEN <<-b[2], -b[1]>> ELSE <<b[2], b[1]>>

RDiv(a, b) == RMul(a, RInv(b))

\* n1/d1 < n2/d2 for d1, d2 > 0, decided on integer parts and remainders
\* (the continued-fraction expansions), so that no cross product is formed.
RECURSIVE FracLess(_, _, _, _)
FracLess(n1, d1, n2, d2) ==
    LET q1 == n1 \div d1
        q2 == n2 \div d2
        r1 == n1 % d1
        r2 == n2 % d2
    IN  IF q1 # q2 THEN q1 < q2
        ELSE IF r2 = 0 THEN FALSE
        ELSE IF r1 = 0 THEN TRUE
        ELSE FracLess(d2, r2, d1, r1)

RLess(a, b) == FracLess(a[1], a[2], b[1], b[2])
RLeq(a, b) == ~RLess(b, a)

\* Python's max(a, b): the first argument unless the second is greater.
RMax(a, b) == IF RLess(a, b) THEN b ELSE a

(***************************************************************************)
(* Lists                                                                   *)
(***************************************************************************)
\* list[k] with the program's 0-based index k
At(list, k) == list[k + 1]

\* [c[field] for c in candles]
Column(cs, field) == [k \in 1..Len(cs) |-> cs[k][field]]

(***************************************************************************)
(* Configuration (module level, lines 21-24) and the model's bounds        *)
(***************************************************************************)
EMA_FAST == 8
EMA_SLOW == 21
RSI_PERIOD == 14
VOLUME_MULTIPLIER == One

\* Python's None
None == <<>>

\* the quantity floor of the sizer, 1e-8
QtyFloor == <<1, 100000000>>

\* The longest candle sequence given to run_backtest.
MaxCandles == 7

\* Closing prices, and the low of a bar whose low is below its close.
Closes == {2, 3, 4}
FirstCloses == {3}
WickLow == <<1, 1>>
Volumes == {5}

\* Bars k and k+1 (k odd) carry the same time: times are non-decreasing, not
\* strictly increasing.
BarTime(k) == 60000 * ((k + 1) \div 2)

(***************************************************************************)
(* Indicators                                                              *)
(***************************************************************************)
\* ema(values, span), lines 96-102
RECURSIVE ema(_, _)
ema(values, span) ==
    IF values = <<>> THEN <<>>
    ELSE IF Len(values) = 1 THEN <<values[1]>>
    ELSE LET alpha == Rat(2, span + 1)
             out == ema(SubSeq(values, 1, Len(values) - 1), span)
             v == values[Len(values)]
             last == out[Len(out)]
         IN  Append(out, RAdd(RMul(RSub(v, last), alpha), last))

\* Leaving with the window one element short: values[i-period+1].
LeavingLate(values, period, n) == values[n - period + 1]

\* values[i-period] of line 110, the element that leaves the window when the
\* n-th element (0-based i = n-1) enters it
Leaving(values, period, n) == values[n - period]

\* The running sum s and the list out of sma after its loop (lines 107-113)
\* has handled the first n elements.
RECURSIVE SmaLoop(_, _, _)
SmaLoop(values, period, n) ==
    IF n = 0 THEN [s |-> Zero, out |-> <<>>]
    ELSE LET before == SmaLoop(values, period, n - 1)
             added == RAdd(before.s, values[n])
             dropped == RSub(added, Leaving(values, period, n))
         IN  IF n - 1 >= period
                 THEN [s |-> dropped,
                       out |-> Append(before.out, RDiv(dropped, RInt(period)))]
             ELSE IF n - 1 = period - 1
                 THEN [s |-> added,
                       out |-> Append(before.out, RDiv(added, RInt(period)))]
             ELSE [s |-> added, out |-> before.out]

\* sma(values, period), lines 104-114
sma(values, period) == SmaLoop(values, period, Len(values)).out

\* sum(list) of a list of rationals
RECURSIVE RSum(_)
RSum(list) ==
    IF list = <<>> THEN Zero
    ELSE RAdd(RSum(SubSeq(list, 1, Len(list) - 1)), list[Len(list)])

\* One output entry of rsi.  Neutral is the placeholder 50.  A computed entry
\* keeps the two smoothed averages it is made of and stands for the number
\*     100 - 100/(1 + rs),  rs = up_avg/(down_avg + 1e-12):
\* 1e-12 is below every positive rational the model can represent, so the
\* number itself is not formed; rsi_ok below compares it with 25 and 75.
Neutral == [neutral |-> TRUE, up_avg |-> Zero, down_avg |-> Zero]
Smoothed(up, down) == [neutral |-> FALSE, up_avg |-> up, down_avg |-> down]

\* WilderAvgs one difference behind: zip(ups[period-1:], downs[period-1:]).
RECURSIVE WilderAvgsLagged(_, _, _, _)
WilderAvgsLagged(seed, ds, period, k) ==
    IF k <= period THEN <<seed>>
    ELSE LET out == WilderAvgsLagged(seed, ds, period, k - 1)
         IN  Append(out, RDiv(RAdd(RMul(out[Len(out)], RInt(period - 1)),
                                   ds[k - 1]),
                              RInt(period)))

\* The averages the loop of lines 125-127 goes through: the seed, then one
\* average per difference consumed, up to ds[k-1] (0-based), that is ds[k] of
\* the 1-based sequence.
RECURSIVE WilderAvgs(_, _, _, _)
WilderAvgs(seed, ds, period, k) ==
    IF k <= period THEN <<seed>>
    ELSE LET out == WilderAvgs(seed, ds, period, k - 1)
         IN  Append(out, RDiv(RAdd(RMul(out[Len(out)], RInt(period - 1)),
                                   ds[k]),
                              RInt(period)))

\* rsi(values, period), lines 116-130
rsi(values, period) ==
    IF Len(values) < period + 1 THEN [k \in 1..Len(values) |-> Neutral]
    ELSE LET deltas == [k \in 1..(Len(values) - 1) |->
                           RSub(values[k + 1], values[k])]
             ups == [k \in 1..Len(deltas) |->
                        IF RLess(Zero, deltas[k]) THEN deltas[k] ELSE Zero]
             downs == [k \in 1..Len(deltas) |->
                          IF RLess(deltas[k], Zero) THEN RNeg(deltas[k])
                          ELSE Zero]
             up_seed == RDiv(RSum(SubSeq(ups, 1, period)), RInt(period))
             down_mean == RDiv(RSum(SubSeq(downs, 1, period)), RInt(period))
             \* "x or 1e-9": 1e-9 when the mean is 0
             down_seed == IF down_mean = Zero THEN <<1, 1000000000>>
                          ELSE down_mean
             up_avgs == WilderAvgs(up_seed, ups, period, Len(deltas))
             down_avgs == WilderAvgs(down_seed, downs, period, Len(deltas))
         \* entry k (1-based) is made of the averages that have consumed the
         \* differences up to ds[k-1], the (k-period)-th of the averages
         IN  [k \in 1..Len(values) |->
                 IF k <= period + 1 THEN Neutral
                 ELSE Smoothed(up_avgs[k - period], down_avgs[k - period])]

(***************************************************************************)
(* run_backtest: state                                                     *)
(***************************************************************************)
VARIABLES
    candles,          \* the argument: a list of bars
    initial_balance,  \* the argument
    risk_per_trade,   \* the argument
    stop_loss_pct,    \* the argument
    ema_fast,         \* line 146
    ema_slow,         \* line 147
    rsi_list,         \* line 148
    equity,           \* line 150
    position,         \* line 151: None or the open position
    trades_bt,        \* line 152: the ledger
    i,                \* the loop index of line 153
    pc,               \* "loop" inside the for loop, "done" after the return
    result            \* None until the return of line 192, then its value

\* What lies outside the frame of the call.
VARIABLES
    peer,             \* the frame of a second call of run_backtest that is
                      \* suspended while this one runs, or None
    call,             \* a call of an indicator function on its own, or None
    balance,          \* line 37, module state
    current_trade,    \* line 38
    trades,           \* line 39
    stats             \* line 40

\* the frame of the call of run_backtest: its arguments and locals
locals == <<candles, initial_balance, risk_per_trade, stop_loss_pct, ema_fast,
            ema_slow, rsi_list, equity, position, trades_bt, i, pc, result>>

module_state == <<balance, current_trade, trades, stats>>

vars == <<locals, peer, call, module_state>>

inputs == <<candles, initial_balance, risk_per_trade, stop_loss_pct>>
indicators == <<ema_fast, ema_slow, rsi_list>>

\* lines 141-145 (highs feed only atr_list of line 149, which nothing reads)
closes == Column(candles, "close")
lows == Column(candles, "low")
volumes == Column(candles, "volume")
times == Column(candles, "time")

(***************************************************************************)
(* The inputs the model draws                                              *)
(***************************************************************************)
\* Bar k (0-based) of an n-bar sequence.  Only the lows of the bars the loop
\* visits (2 .. n-2) are read, so only those are drawn below the close.
Bar(c, wick, k, n, v) ==
    [time |-> BarTime(k),
     close |-> RInt(c),
     low |-> IF wick /\ k >= 2 /\ k <= n - 2 THEN WickLow ELSE RInt(c),
     volume |-> RInt(v)]

\* The sequences of n bars: the first close is one of FirstCloses, the others are any
\* of Closes, and at most one bar has its low below its close.
CandleSeqs(n) ==
    {[k \in 1..n |-> Bar(cs[k], k \in ws, k - 1, n, v)] :
        cs \in {c \in [1..n -> Closes] : n >= 1 => c[1] \in FirstCloses},
        ws \in {{}} \cup {{k} : k \in 3..(n - 1)},
        v \in Volumes}

\* Lines 21-23 read EMA_FAST, EMA_SLOW and RSI_PERIOD from the environment.
\* The long runs below are runs of a process started with EMA_FAST=1,
\* EMA_SLOW=3 and RSI_PERIOD=2: the averages then have powers of two as
\* denominators, which stay representable over the 22 bars that line 162
\* needs before it compares volumes.
EnvEmaFast == 1
EnvEmaSlow == 3
EnvRsiPeriod == 2

\* The long runs: LongCandles bars, of which the bars TailFirst .. TailLast
\* (0-based) have any of Closes as their close.
LongCandles == 25
TailFirst == 19
TailLast == 23

\* The volumes of bars 20 and 21 of a long run; the other bars have volume 5.
SignalVolumes == {4, 6}

\* The long sequences: the first close is 4, the closes up to the tail and
\* after it are 3 (a loss in the first difference, then the fast average
\* below the slow one, no position), at most one bar of the tail from
\* TailFirst + 2 on has its low below its close.
LongSeqs ==
    {[k \in 1..LongCandles |->
         Bar(IF k = 1 THEN 4
             ELSE IF (k - 1) \in TailFirst..TailLast THEN tail[k - 1] ELSE 3,
             k \in ws, k - 1, LongCandles,
             IF k - 1 = 20 THEN v[1] ELSE IF k - 1 = 21 THEN v[2] ELSE 5)] :
        tail \in [TailFirst..TailLast -> Closes],
        ws \in {{}} \cup {{k} : k \in (TailFirst + 3)..(TailLast + 1)},
        v \in SignalVolumes \X SignalVolumes}

\* The calls of sma and rsi on their own: value sequences of up to MaxValues
\* closes, and the periods.
MaxValues == 5
SmaPeriods == {1, 2, 3}
RsiPeriods == {1, 2}

ValueSeqs == UNION {[1..n -> {RInt(c) : c \in Closes}] : n \in 0..MaxValues}

\* A seed window without a loss seeds down_avg with 1e-9 (line 123).  With
\* period 1 the seed is multiplied by 0; with period 2 it is halved at every
\* step, and is a representable rational for one step only.
RsiRepresentable(values, period) ==
    \/ period = 1
    \/ Len(values) <= period + 2
    \/ \E k \in 1..period : RLess(values[k + 1], values[k])

IndicatorCalls ==
    {[fn |-> "sma", values |-> v, period |-> p, returned |-> FALSE,
      out |-> <<>>] : v \in ValueSeqs, p \in SmaPeriods}
    \cup
    {[fn |-> "rsi", values |-> x[1], period |-> x[2], returned |-> FALSE,
      out |-> <<>>] :
        x \in {y \in ValueSeqs \X RsiPeriods : RsiRepresentable(y[1], y[2])}}

\* Two calls of run_backtest in flight at once have PairCandles bars each,
\* with closes 3, 4 at the first two bars (cross_up at index 2).  The second
\* call has closes of 2 from the third bar on and no low below its close.
PairCandles == 5

PairSeqs == {cs \in CandleSeqs(PairCandles) : cs[2].close = RInt(4)}

PeerSeqs ==
    {cs \in PairSeqs :
        \A k \in 1..Len(cs) :
            /\ cs[k].low = cs[k].close
            /\ k >= 3 => cs[k].close = RInt(2)}

\* initial_balance, risk_per_trade, stop_loss_pct of the second call
PeerConfigs ==
    {<<RInt(10), Rat(1, 50), Rat(1, 100)>>, <<RInt(10), Rat(1, 50), Zero>>}

\* initial_balance, risk_per_trade, stop_loss_pct
Configs ==
    {<<RInt(10), Rat(1, 50), Rat(1, 100)>>,   \* the defaults of line 140
     <<RInt(10), Rat(1, 50), Zero>>,          \* no stop distance
     <<QtyFloor, Rat(1, 2), Rat(1, 2)>>,      \* an equity of 1e-8
     <<Zero, Rat(1, 2), Rat(1, 2)>>}          \* a balance that is not positive

(***************************************************************************)
(* run_backtest: what the loop body computes at index i                    *)
(***************************************************************************)
price == At(closes, i)                                     \* line 154

\* the condition of the continue of line 155
SkipIndex ==
    i >= Len(ema_fast) \/ i >= Len(ema_slow) \/ (i - 1) >= Len(rsi_list)

f_now == At(ema_fast, i - 1)                               \* line 157
f_prev == At(ema_fast, i - 2)
s_now == At(ema_slow, i - 1)                               \* line 158
s_prev == At(ema_slow, i - 2)

cross_up == RLeq(f_prev, s_prev) /\ RLess(s_now, f_now)    \* line 159
cross_down == RLeq(s_prev, f_prev) /\ RLess(f_now, s_now)  \* line 160

\* lines 161-164; volumes[i-21:i-1] is elements i-20 .. i-1 of the 1-based list
vol_ok ==
    IF i > 21
    THEN LET avg_vol == RDiv(RSum(SubSeq(volumes, i - 20, i - 1)), RInt(20))
         IN  RLess(RMul(avg_vol, VOLUME_MULTIPLIER), At(volumes, i - 1))
    ELSE TRUE

\* x > 25 and x < 75 for an entry x of rsi_list.  For a computed entry,
\*   x > 25  iff  rs > 1/3  iff  3*up_avg > down_avg + 1e-12,
\*   x < 75  iff  rs < 3    iff  up_avg < 3*down_avg + 3e-12,
\* and a difference of two of the model's rationals is 0 or above 3e-12 in
\* size, so the two tests are 3*up_avg > down_avg and up_avg <= 3*down_avg.
InBand(x) ==
    IF x.neutral THEN 50 > 25 /\ 50 < 75
    ELSE /\ RLess(x.down_avg, RMul(RInt(3), x.up_avg))
         /\ RLeq(x.up_avg, RMul(RInt(3), x.down_avg))

rsi_ok == InBand(At(rsi_list, i - 1))                      \* line 165

\* IsFlat without the test of line 166: the entry branch is taken at every
\* index, also while a position is open.
IsFlatUnchecked == TRUE

\* line 166
IsFlat == position = None

\* EntrySignal without the rsi test of line 165.
EntrySignalNoMomentum == cross_up /\ vol_ok

\* line 167
EntrySignal == cross_up /\ vol_ok /\ rsi_ok

\* line 168
risk_amount == RMul(equity, risk_per_trade)

\* StopPrice with the sign of the stop distance reversed.
StopPriceAbove(p) == RMul(p, RAdd(One, stop_loss_pct))

\* line 169
StopPrice(p) == RMul(p, RSub(One, stop_loss_pct))

\* SizedQty with the stop distance left out of the divisor of line 173.
SizedQtyNoStopDistance(p) ==
    IF RLeq(stop_loss_pct, Zero) THEN RDiv(equity, p)
    ELSE RDiv(risk_amount, p)

\* lines 170-173
SizedQty(p) ==
    IF RLeq(stop_loss_pct, Zero) THEN RDiv(equity, p)
    ELSE RDiv(risk_amount, RMul(p, stop_loss_pct))

\* FloorQty without the floor of line 174.
FloorQtyMissing(qty) == qty

\* line 174
FloorQty(qty) == RMax(QtyFloor, qty)

\* lines 175-176
NewPosition ==
    [entry |-> price, qty |-> FloorQty(SizedQty(price)),
     stop |-> StopPrice(price), entry_time |-> At(times, i)]

\* ExitReason with the two tests of lines 178 and 185 in the other order.
ExitReasonSignalFirst ==
    IF cross_down THEN "X"
    ELSE IF RLeq(At(lows, i), position.stop) THEN "SL"
    ELSE "none"

\* ExitReason with the signal exit gated by the two entry filters.
ExitReasonFiltered ==
    IF RLeq(At(lows, i), position.stop) THEN "SL"
    ELSE IF cross_down /\ vol_ok /\ rsi_ok THEN "X"
    ELSE "none"

\* lines 178 and 185: which branch of the else closes the position, if any
ExitReason ==
    IF RLeq(At(lows, i), position.stop) THEN "SL"
    ELSE IF cross_down THEN "X"
    ELSE "none"

\* lines 179 and 186
ExitPrice(reason) == IF reason = "SL" THEN position.stop ELSE price

\* Proceeds as the gain of the exit alone, qty * (exit_price - entry).
ProceedsNet(exit_price) ==
    RMul(position.qty, RSub(exit_price, position.entry))

\* lines 180 and 187
Proceeds(exit_price) == RMul(position.qty, exit_price)

\* Profit measured against the equity instead of the cost qty * entry.
ProfitAgainstEquity(exit_price) == RSub(Proceeds(exit_price), equity)

\* lines 181 and 188
Profit(exit_price) ==
    RSub(Proceeds(exit_price), RMul(position.qty, position.entry))

\* the record of lines 183 and 190; balance_after is the equity just assigned
Trade(exit_price, reason) ==
    [time |-> At(times, i), symbol |-> "", entry |-> position.entry,
     exit |-> exit_price, profit |-> Profit(exit_price),
     balance_after |-> Proceeds(exit_price), reason |-> reason]

\* AppendTrade as trades_bt.insert(0, t).
InsertTradeFirst(ledger, t) == <<t>> \o ledger

\* trades_bt.append(t), lines 183 and 190
AppendTrade(ledger, t) == Append(ledger, t)

\* ModuleTrades with the trade appended to the module's list as well.
ModuleTradesAppended(t) == Append(trades, t)

\* The module's trades after an exit: lines 183 and 190 append to the local
\* trades_bt, the list of line 39 is left as it is.
ModuleTrades(t) == trades

\* PositionAfterExit as a new position opened at the index of the exit.
PositionReopened == NewPosition

\* PositionAfterExit without the reset of lines 184 and 191.
PositionKept == position

\* lines 184 and 191
PositionAfterExit == None

\* ReturnValue with an open position valued at the last close.
ReturnValueMarked ==
    [initial_balance |-> initial_balance,
     final_balance |-> IF position = None THEN equity
                       ELSE RMul(position.qty, closes[Len(closes)]),
     trades |-> trades_bt, equity_curve |-> None]

\* line 192
ReturnValue ==
    [initial_balance |-> initial_balance, final_balance |-> equity,
     trades |-> trades_bt, equity_curve |-> None]

(***************************************************************************)
(* run_backtest as a function of its arguments                             *)
(***************************************************************************)
\* One iteration of the loop of lines 153-191, at index k, on the locals
\* st = [equity, position, trades_bt] of a call with the arguments and the
\* indicator lists a.
Iteration(a, k, st) ==
    LET cl == Column(a.candles, "close")
        lo == Column(a.candles, "low")
        vo == Column(a.candles, "volume")
        ti == Column(a.candles, "time")
        p == At(cl, k)
        up == /\ RLeq(At(a.ema_fast, k - 2), At(a.ema_slow, k - 2))
              /\ RLess(At(a.ema_slow, k - 1), At(a.ema_fast, k - 1))
        down == /\ RLeq(At(a.ema_slow, k - 2), At(a.ema_fast, k - 2))
                /\ RLess(At(a.ema_fast, k - 1), At(a.ema_slow, k - 1))
        vok == IF k > 21
               THEN RLess(RMul(RDiv(RSum(SubSeq(vo, k - 20, k - 1)), RInt(20)),
                               VOLUME_MULTIPLIER),
                          At(vo, k - 1))
               ELSE TRUE
        rok == InBand(At(a.rsi_list, k - 1))
        pos == st.position
        opened ==
            [entry |-> p,
             qty |-> RMax(QtyFloor,
                          IF RLeq(a.stop_loss_pct, Zero)
                          THEN RDiv(st.equity, p)
                          ELSE RDiv(RMul(st.equity, a.risk_per_trade),
                                    RMul(p, a.stop_loss_pct))),
             stop |-> RMul(p, RSub(One, a.stop_loss_pct)),
             entry_time |-> At(ti, k)]
        Closed(x, reason) ==
            LET proceeds == RMul(pos.qty, x)
            IN  [equity |-> proceeds, position |-> None,
                 trades_bt |->
                     Append(st.trades_bt,
                            [time |-> At(ti, k), symbol |-> "",
                             entry |-> pos.entry, exit |-> x,
                             profit |-> RSub(proceeds,
                                             RMul(pos.entry, pos.qty)),
                             balance_after |-> proceeds, reason |-> reason])]
    IN  IF \/ k >= Len(a.ema_fast) \/ k >= Len(a.ema_slow)
           \/ (k - 1) >= Len(a.rsi_list)
            THEN st
        ELSE IF pos = None
            THEN IF up /\ vok /\ rok THEN [st EXCEPT !.position = opened]
                 ELSE st
        ELSE IF RLeq(At(lo, k), pos.stop) THEN Closed(pos.stop, "SL")
        ELSE IF down THEN Closed(p, "X")
        ELSE st

\* the locals after the iterations at the indices 2 .. k-1
RECURSIVE Scan(_, _)
Scan(a, k) ==
    IF k <= 2
        THEN [equity |-> a.initial_balance, position |-> None,
              trades_bt |-> <<>>]
    ELSE Iteration(a, k - 1, Scan(a, k - 1))

\* run_backtest(candles, initial_balance, risk_per_trade, stop_loss_pct),
\* lines 140-192, under the default environment: the value returned by a call
\* that runs from its first line to its last on its own
run_backtest(cs, ib, risk, slp) ==
    LET cl == Column(cs, "close")
        a == [candles |-> cs, initial_balance |-> ib, risk_per_trade |-> risk,
              stop_loss_pct |-> slp, ema_fast |-> ema(cl, EMA_FAST),
              ema_slow |-> ema(cl, EMA_SLOW), rsi_list |-> rsi(cl, RSI_PERIOD)]
        st == Scan(a, Len(cl) - 1)
    IN  [initial_balance |-> ib, final_balance |-> st.equity,
         trades |-> st.trades_bt, equity_curve |-> None]

(***************************************************************************)
(* run_backtest: the state machine                                         *)
(***************************************************************************)
\* line 27
INITIAL_BALANCE == RInt(10)

\* lines 37-40: the module state after import
ModuleInit ==
    /\ balance = INITIAL_BALANCE
    /\ current_trade = None
    /\ trades = <<>>
    /\ stats = [trades |-> 0, wins |-> 0, losses |-> 0, profit_usd |-> Zero]

\* one call of run_backtest and nothing else
Alone == peer = None /\ call = None /\ ModuleInit

\* The state on reaching the for loop of line 153 (lines 141-152 done).
Init ==
    /\ \E n \in 0..MaxCandles : candles \in CandleSeqs(n)
    /\ \E cfg \in Configs :
          /\ initial_balance = cfg[1]
          /\ risk_per_trade = cfg[2]
          /\ stop_loss_pct = cfg[3]
    /\ ema_fast = ema(closes, EMA_FAST)
    /\ ema_slow = ema(closes, EMA_SLOW)
    /\ rsi_list = rsi(closes, RSI_PERIOD)
    /\ equity = initial_balance
    /\ position = None
    /\ trades_bt = <<>>
    /\ i = 2
    /\ pc = "loop"
    /\ result = None
    /\ Alone

\* The same state for a long run, in the environment EMA_FAST=1, EMA_SLOW=3,
\* RSI_PERIOD=2 and with the default arguments of line 140.
InitLong ==
    /\ candles \in LongSeqs
    /\ initial_balance = RInt(10)
    /\ risk_per_trade = Rat(1, 50)
    /\ stop_loss_pct = Rat(1, 100)
    /\ ema_fast = ema(closes, EnvEmaFast)
    /\ ema_slow = ema(closes, EnvEmaSlow)
    /\ rsi_list = rsi(closes, EnvRsiPeriod)
    /\ equity = initial_balance
    /\ position = None
    /\ trades_bt = <<>>
    /\ i = 2
    /\ pc = "loop"
    /\ result = None
    /\ Alone

\* InLoop with the last bar included: range(2, len(closes)).
InLoopToLastBar == pc = "loop" /\ i < Len(closes)

\* A call of sma or of rsi, and no call of run_backtest.
InitCalls ==
    /\ call \in IndicatorCalls
    /\ candles = <<>>
    /\ initial_balance = Zero
    /\ risk_per_trade = Zero
    /\ stop_loss_pct = Zero
    /\ ema_fast = <<>>
    /\ ema_slow = <<>>
    /\ rsi_list = <<>>
    /\ equity = Zero
    /\ position = None
    /\ trades_bt = <<>>
    /\ i = 2
    /\ pc = "idle"
    /\ result = None
    /\ peer = None
    /\ ModuleInit

\* the frame of a call on reaching the for loop of line 153
StartFrame(cs, cfg) ==
    [candles |-> cs, initial_balance |-> cfg[1], risk_per_trade |-> cfg[2],
     stop_loss_pct |-> cfg[3],
     ema_fast |-> ema(Column(cs, "close"), EMA_FAST),
     ema_slow |-> ema(Column(cs, "close"), EMA_SLOW),
     rsi_list |-> rsi(Column(cs, "close"), RSI_PERIOD),
     equity |-> cfg[1], position |-> None, trades_bt |-> <<>>, i |-> 2,
     pc |-> "loop", result |-> None]

\* the frame of the running call
Frame ==
    [candles |-> candles, initial_balance |-> initial_balance,
     risk_per_trade |-> risk_per_trade, stop_loss_pct |-> stop_loss_pct,
     ema_fast |-> ema_fast, ema_slow |-> ema_slow, rsi_list |-> rsi_list,
     equity |-> equity, position |-> position, trades_bt |-> trades_bt,
     i |-> i, pc |-> pc, result |-> result]

\* Two requests to /api/backtest (lines 231-247) served at once: two calls of
\* run_backtest have reached the for loop, one is running and the other is
\* suspended.
InitPair ==
    /\ \E cs \in PairSeqs :
          LET f == StartFrame(cs, <<RInt(10), Rat(1, 50), Rat(1, 100)>>)
          IN  /\ candles = f.candles
              /\ initial_balance = f.initial_balance
              /\ risk_per_trade = f.risk_per_trade
              /\ stop_loss_pct = f.stop_loss_pct
              /\ ema_fast = f.ema_fast
              /\ ema_slow = f.ema_slow
              /\ rsi_list = f.rsi_list
              /\ equity = f.equity
              /\ position = f.position
              /\ trades_bt = f.trades_bt
              /\ i = f.i
              /\ pc = f.pc
              /\ result = f.result
    /\ \E cs \in PeerSeqs, cfg \in PeerConfigs : peer = StartFrame(cs, cfg)
    /\ call = None
    /\ ModuleInit

\* i is in range(2, len(closes)-1)
InLoop == pc = "loop" /\ i < Len(closes) - 1

\* lines 166-176: Flat and the entry condition holds
Enter ==
    /\ InLoop
    /\ ~SkipIndex
    /\ IsFlat
    /\ EntrySignal
    /\ position' = NewPosition
    /\ i' = i + 1
    /\ UNCHANGED <<inputs, indicators, equity, trades_bt, pc, result>>
    /\ UNCHANGED <<peer, call, module_state>>

\* the body of an exit branch, lines 179-184 and 186-191
Close(reason) ==
    /\ equity' = Proceeds(ExitPrice(reason))
    /\ trades_bt' = AppendTrade(trades_bt, Trade(ExitPrice(reason), reason))
    /\ position' = PositionAfterExit
    /\ i' = i + 1
    /\ trades' = ModuleTrades(Trade(ExitPrice(reason), reason))
    /\ UNCHANGED <<inputs, indicators, pc, result>>
    /\ UNCHANGED <<peer, call, balance, current_trade, stats>>

\* lines 178-184
StopExit ==
    /\ InLoop
    /\ ~SkipIndex
    /\ ~IsFlat
    /\ ExitReason = "SL"
    /\ Close("SL")

\* lines 185-191
SignalExit ==
    /\ InLoop
    /\ ~SkipIndex
    /\ ~IsFlat
    /\ ExitReason = "X"
    /\ Close("X")

\* An index at which the body changes nothing: the continue of line 156, Flat
\* without the entry condition, Holding without an exit condition.
NoAction ==
    /\ InLoop
    /\ \/ SkipIndex
       \/ ~SkipIndex /\ IsFlat /\ ~EntrySignal
       \/ ~SkipIndex /\ ~IsFlat /\ ExitReason = "none"
    /\ i' = i + 1
    /\ UNCHANGED <<inputs, indicators, equity, position, trades_bt, pc, result>>
    /\ UNCHANGED <<peer, call, module_state>>

\* line 192, once the range of line 153 is exhausted
Return ==
    /\ pc = "loop"
    /\ ~(i < Len(closes) - 1)
    /\ result' = ReturnValue
    /\ pc' = "done"
    /\ UNCHANGED <<inputs, indicators, equity, position, trades_bt, i>>
    /\ UNCHANGED <<peer, call, module_state>>

\* the return of line 114
ReturnSma ==
    /\ call # None
    /\ call.fn = "sma"
    /\ ~call.returned
    /\ call' = [call EXCEPT !.returned = TRUE,
                            !.out = sma(call.values, call.period)]
    /\ UNCHANGED <<locals, peer, module_state>>

\* the returns of lines 118 and 130
ReturnRsi ==
    /\ call # None
    /\ call.fn = "rsi"
    /\ ~call.returned
    /\ call' = [call EXCEPT !.returned = TRUE,
                            !.out = rsi(call.values, call.period)]
    /\ UNCHANGED <<locals, peer, module_state>>

\* The running call is suspended and the suspended call runs: the thread of
\* one request gives way to the thread of the other.
Switch ==
    /\ peer # None
    /\ peer' = Frame
    /\ candles' = peer.candles
    /\ initial_balance' = peer.initial_balance
    /\ risk_per_trade' = peer.risk_per_trade
    /\ stop_loss_pct' = peer.stop_loss_pct
    /\ ema_fast' = peer.ema_fast
    /\ ema_slow' = peer.ema_slow
    /\ rsi_list' = peer.rsi_list
    /\ equity' = peer.equity
    /\ position' = peer.position
    /\ trades_bt' = peer.trades_bt
    /\ i' = peer.i
    /\ pc' = peer.pc
    /\ result' = peer.result
    /\ UNCHANGED <<call, module_state>>

Next == Enter \/ StopExit \/ SignalExit \/ NoAction \/ Return

Spec == Init /\ [][Next]_vars

\* the long runs
SpecLong == InitLong /\ [][Next]_vars

\* the runs of Spec and the long runs together
SpecBoth == (Init \/ InitLong) /\ [][Next]_vars

\* two calls of run_backtest interleaved
NextPair == Next \/ Switch

SpecPair == InitPair /\ [][NextPair]_vars

\* the indicator functions called on their own
NextCalls == ReturnSma \/ ReturnRsi

SpecCalls == InitCalls /\ [][NextCalls]_vars

(***************************************************************************)
(* Properties                                                              *)
(***************************************************************************)
Last(list) == list[Len(list)]

RPos(a) == RLess(Zero, a)

\* a step of the loop that appends a trade with the given reason
Records(reason) ==
    /\ Len(trades_bt') = Len(trades_bt) + 1
    /\ Last(trades_bt').reason = reason

\* a step that opens a position / that closes the open one
OpensPosition == position' # None /\ position' # position
ClosesPosition == position # None /\ position' = None

\* cross_down as line 160 computes it at index k
CrossDownAtBar(k) ==
    /\ RLeq(At(ema_slow, k - 2), At(ema_fast, k - 2))
    /\ RLess(At(ema_fast, k - 1), At(ema_slow, k - 1))

\* C1: a position is created only from Flat: no step replaces an open
\* position by another one (no Holding -> Holding transition), so at every
\* index there is at most one open position.
C1_EntryOnlyWhenFlat == [][OpensPosition => position = None]_vars

\* C1 witness: a second position has been opened after the first was closed.
C1_Witness == position # None /\ trades_bt # <<>>

\* C2: at an index where a position is open and low[i] <= position.stop, the
\* step records exactly one trade, with reason SL and exit price position.stop,
\* and closes the position, whether or not cross_down holds there; so no X
\* trade is recorded for such a bar.
C2_StopBeforeSignal ==
    [][(InLoop /\ ~SkipIndex /\ position # None
            /\ RLeq(At(lows, i), position.stop))
        => (/\ Records("SL")
            /\ SubSeq(trades_bt', 1, Len(trades_bt)) = trades_bt
            /\ Last(trades_bt').exit = position.stop
            /\ position' = None)]_vars

\* C2 witness: the position opened at index 2 was closed at index 3 by the
\* stop, on a bar where cross_down held as well.
C2_Witness ==
    /\ pc = "loop" /\ i = 4 /\ Len(trades_bt) = 1
    /\ trades_bt[1].reason = "SL"
    /\ RLeq(At(lows, 3), trades_bt[1].exit)
    /\ CrossDownAtBar(3)

\* The quantity of lines 170-173 for the open position, before the floor of
\* line 174.  Equity is not assigned between an entry and the close of the
\* position it opened (C4), so the equity before the close is the equity at
\* entry.
UnflooredQty ==
    RDiv(RMul(equity, risk_per_trade), RMul(position.entry, stop_loss_pct))

\* C3 as stated, for the accepted configurations (initial_balance > 0): with
\* stop_loss_pct > 0, every stop hit loses equity_at_entry * risk_per_trade.
C3_RiskSizingLaw ==
    [][(RPos(initial_balance) /\ RPos(stop_loss_pct) /\ position # None
            /\ Records("SL"))
        => RNeg(Last(trades_bt').profit) = RMul(equity, risk_per_trade)]_vars

\* C3 amended: with stop_loss_pct > 0, every stop hit of a position whose
\* sized quantity was not raised by the 1e-8 floor loses
\* equity_at_entry * risk_per_trade.
C3_RiskSizingLawUnfloored ==
    [][(RPos(stop_loss_pct) /\ position # None /\ Records("SL")
            /\ RLeq(QtyFloor, UnflooredQty))
        => RNeg(Last(trades_bt').profit) = RMul(equity, risk_per_trade)]_vars

\* C3 witness: the first position, sized from the initial balance of 10 and
\* not floored, was stopped out with a loss of 10 * risk_per_trade.
C3_Witness ==
    /\ RPos(stop_loss_pct) /\ initial_balance = RInt(10)
    /\ Len(trades_bt) = 1 /\ trades_bt[1].reason = "SL"
    /\ RNeg(trades_bt[1].profit) = RMul(initial_balance, risk_per_trade)

\* C4: a step that does not close a position leaves equity and the ledger
\* unchanged; a step that closes one appends exactly one trade and assigns
\* equity the balance_after of that trade.
C4_EquityOnlyOnClose ==
    [][/\ ~ClosesPosition => (equity' = equity /\ trades_bt' = trades_bt)
       /\ ClosesPosition => (/\ Len(trades_bt') = Len(trades_bt) + 1
                      /\ SubSeq(trades_bt', 1, Len(trades_bt)) = trades_bt
                      /\ equity' = Last(trades_bt').balance_after)]_vars

\* C4 witness: two positions have been closed and equity has moved.
C4_Witness == Len(trades_bt) = 2 /\ position = None /\ equity # initial_balance

\* C5 as stated, for the accepted configurations (initial_balance > 0) and the
\* positions whose quantity is above the 1e-8 floor: the notional of every
\* open position is the whole equity (equity is unchanged while the position
\* is open, C4).
C5_FullDeployment ==
    (RPos(initial_balance) /\ position # None /\ RLess(QtyFloor, position.qty))
        => RMul(position.qty, position.entry) = equity

\* C6: the ledger only grows at its end, by at most one trade per index, and
\* for non-decreasing candle times its trade times are non-decreasing.
NonDecreasing(ts) == \A k \in 1..(Len(ts) - 1) : ts[k] <= ts[k + 1]

C6_LedgerAppendOnly ==
    [][/\ \/ trades_bt' = trades_bt
          \/ /\ Len(trades_bt') = Len(trades_bt) + 1
             /\ SubSeq(trades_bt', 1, Len(trades_bt)) = trades_bt
             /\ i' = i + 1
       /\ NonDecreasing(times) => NonDecreasing(Column(trades_bt', "time"))
      ]_vars

\* C6 witness: a ledger of two trades.
C6_Witness ==
    /\ Len(trades_bt) = 2
    /\ trades_bt[1].time <= trades_bt[2].time
    /\ trades_bt[1] # trades_bt[2]

\* C7: the return appends no trade and closes nothing; final_balance is
\* initial_balance for an empty ledger and the balance_after of the last
\* trade otherwise, also when a position is still open.
C7_NoForcedClose ==
    [][(pc = "loop" /\ pc' = "done")
        => (/\ trades_bt' = trades_bt
            /\ position' = position
            /\ result'.trades = trades_bt
            /\ result'.final_balance =
                  IF trades_bt = <<>> THEN initial_balance
                  ELSE Last(trades_bt).balance_after)]_vars

\* C7 witness: the run returned with a position open whose value at the last
\* close is not the final balance.
C7_Witness ==
    /\ pc = "done" /\ position # None /\ trades_bt # <<>>
    /\ RMul(position.qty, Last(closes)) # result.final_balance

\* C8 as stated: the stop of every open position is strictly below its entry.
C8_StopBelowEntry == position # None => RLess(position.stop, position.entry)

\* C8 amended: the stop of every open position is entry * (1 - stop_loss_pct),
\* at or below the entry, and strictly below it when stop_loss_pct > 0.
C8_StopAtOrBelowEntry ==
    position # None =>
        /\ position.stop = RMul(position.entry, RSub(One, stop_loss_pct))
        /\ RLeq(position.stop, position.entry)
        /\ RPos(stop_loss_pct) => RLess(position.stop, position.entry)

\* C8 witness: with stop_loss_pct = 0 a position is open with its stop at its
\* entry.
C8_Witness ==
    position # None /\ stop_loss_pct = Zero /\ position.stop = position.entry

\* C9: every position is created with the sized quantity (equity/price when
\* stop_loss_pct <= 0, equity*risk/(price*stop_loss_pct) otherwise) raised to
\* at least 1e-8, hence with quantity > 0, whatever the equity.
C9_QuantityPositive ==
    [][OpensPosition =>
          /\ position'.qty =
                RMax(QtyFloor,
                     IF RLeq(stop_loss_pct, Zero)
                     THEN RDiv(equity, position'.entry)
                     ELSE RDiv(RMul(equity, risk_per_trade),
                               RMul(position'.entry, stop_loss_pct)))
          /\ RLeq(QtyFloor, position'.qty)
          /\ RPos(position'.qty)]_vars

\* C9 witness: a position opened from a positive equity whose sized quantity
\* is below 1e-8, at the floor.
C9_Witness ==
    /\ position # None /\ RPos(equity) /\ RPos(stop_loss_pct)
    /\ RLess(UnflooredQty, QtyFloor)
    /\ position.qty = QtyFloor

\* C10 as stated: a run with a non-positive initial_balance produces no
\* result.
C10_InvalidConfigRejected == RLeq(initial_balance, Zero) => result = None

\* cross_up as line 159 computes it at index k
CrossUpAtBar(k) ==
    /\ RLeq(At(ema_fast, k - 2), At(ema_slow, k - 2))
    /\ RLess(At(ema_slow, k - 1), At(ema_fast, k - 1))

\* the two averages are equal at every index
FlatAverages == ema_fast = ema_slow

VolumeAboveMean(k) ==
    RLess(RMul(VOLUME_MULTIPLIER,
               RDiv(RSum(SubSeq(volumes, k - 20, k - 1)), RInt(20))),
          At(volumes, k - 1))

\* C12 as stated: at every index i >= 21 (the signal bar i-1 has 20 bars
\* before it) a position is opened only if volume[i-1] exceeds
\* VOLUME_MULTIPLIER times the mean volume of the bars i-21 .. i-2.
C12_VolumeGateFrom21 ==
    [][(InLoop /\ i >= 21 /\ OpensPosition) => VolumeAboveMean(i)]_vars

\* C16: a step that records a trade (an exit, SL or X) records
\* profit = qty * exit - qty * entry, assigns equity = qty * exit, records
\* that equity as balance_after and time[i] as the trade's time, and leaves
\* no position open.
C16_ExitAccounting ==
    [][(Len(trades_bt') > Len(trades_bt)) =>
          LET t == Last(trades_bt')
          IN  /\ position # None
              /\ t.entry = position.entry
              /\ t.exit = IF t.reason = "SL" THEN position.stop
                          ELSE At(closes, i)
              /\ t.profit = RSub(RMul(position.qty, t.exit),
                                 RMul(position.qty, position.entry))
              /\ equity' = RMul(position.qty, t.exit)
              /\ t.balance_after = equity'
              /\ t.time = At(times, i)
              /\ position' = None]_vars

\* C16 witness: both kinds of exit have been recorded, and the cost of the
\* first position was not the equity it was opened from.
C16_Witness ==
    /\ Len(trades_bt) = 2 /\ position = None
    /\ trades_bt[1].reason # trades_bt[2].reason
    /\ RSub(trades_bt[1].balance_after, trades_bt[1].profit) # initial_balance

\* C17: at an index where a position is open and low[i] > position.stop, the
\* position is closed if and only if cross_down holds (ema_fast[i-2] >=
\* ema_slow[i-2] and ema_fast[i-1] < ema_slow[i-1]), and then with reason X
\* at exit price close[i]; vol_ok and the rsi band have no part in it.
C17_SignalExitIffCrossDown ==
    [][(InLoop /\ position # None /\ RLess(position.stop, At(lows, i)))
        => (/\ (position' = None) <=> CrossDownAtBar(i)
            /\ (Len(trades_bt') > Len(trades_bt)) <=> CrossDownAtBar(i)
            /\ CrossDownAtBar(i) =>
                  (/\ Records("X")
                   /\ Last(trades_bt').exit = At(closes, i)))]_vars

\* C17 witness: an X exit at an index i-1 >= 22 where the volume comparison
\* of line 164 fails and rsi_list[i-2] is outside the band (bar i-1 is the
\* only processed bar with its time).
C17_Witness ==
    /\ pc = "loop" /\ i > 22 /\ position = None /\ trades_bt # <<>>
    /\ Last(trades_bt).reason = "X"
    /\ Last(trades_bt).time = At(times, i - 1)
    /\ At(times, i - 2) < At(times, i - 1)
    /\ ~VolumeAboveMean(i - 1)
    /\ ~InBand(At(rsi_list, i - 2))

\* C18: positions are opened and closed, and trades recorded, only at
\* indices 2 .. N-2 (never at 0, 1 or N-1), with entry_time and trade time
\* the time of that index; a run of N <= 3 candles never enters the loop body
\* and returns no trade and final_balance = initial_balance.
C18_ScanRange ==
    [][/\ (OpensPosition \/ ClosesPosition \/ trades_bt' # trades_bt) =>
            (2 <= i /\ i <= Len(candles) - 2)
       /\ OpensPosition => position'.entry_time = At(times, i)
       /\ (Len(trades_bt') > Len(trades_bt)) =>
            Last(trades_bt').time = At(times, i)
       /\ (Len(candles) <= 3) => ~InLoop
       /\ (Len(candles) <= 3 /\ pc' = "done") =>
            (/\ result'.trades = <<>>
             /\ result'.final_balance = initial_balance)]_vars

\* C18 witness: a run of three candles has returned without a trade although
\* cross_up holds at index 2, its last bar.
C18_Witness ==
    /\ pc = "done" /\ Len(candles) = 3 /\ CrossUpAtBar(2)
    /\ result.trades = <<>> /\ position = None

\* C19: every step handles one index and makes at most one transition there:
\* a step that opens a position starts from no position and records no
\* trade (the position is not closed at its entry index, also when
\* low[i] <= stop there), and a step that records a trade leaves no position
\* open (none is opened at the index of an exit).
C19_OneTransitionPerIndex ==
    [][/\ InLoop => i' = i + 1
       /\ OpensPosition => (position = None /\ trades_bt' = trades_bt)
       /\ (trades_bt' # trades_bt) => (position # None /\ position' = None)
      ]_vars

\* C19 witness: the position opened at index 2, on a bar whose low is at or
\* below its stop, is still open at index 3.
C19_Witness ==
    /\ pc = "loop" /\ i = 3 /\ position # None /\ trades_bt = <<>>
    /\ position.entry_time = At(times, 2)
    /\ RLeq(At(lows, 2), position.stop)

\* C20: with initial_balance > 0, risk_per_trade > 0, 0 <= stop_loss_pct < 1
\* and positive closes and lows, equity is positive in every state, and so
\* are every balance_after and the final_balance.
C20_EquityPositive ==
    (/\ RPos(initial_balance) /\ RPos(risk_per_trade)
     /\ RLeq(Zero, stop_loss_pct) /\ RLess(stop_loss_pct, One)
     /\ \A k \in 1..Len(candles) : RPos(closes[k]) /\ RPos(lows[k]))
    => (/\ RPos(equity)
        /\ \A k \in 1..Len(trades_bt) : RPos(trades_bt[k].balance_after)
        /\ pc = "done" => RPos(result.final_balance))

\* C20 witness: a run that started from a positive balance has returned
\* after a losing stop exit.
C20_Witness ==
    /\ pc = "done" /\ RPos(initial_balance) /\ trades_bt # <<>>
    /\ Last(trades_bt).reason = "SL"
    /\ RLess(Last(trades_bt).profit, Zero)
    /\ RPos(result.final_balance)

\* the returned call of the given indicator function
Returned(fn) == call # None /\ call.fn = fn /\ call.returned

\* the mean of values[a .. b] (1-based)
Mean(values, a, b) == RDiv(RSum(SubSeq(values, a, b)), RInt(b - a + 1))

\* the rise and the fall of values at the (1-based) index k >= 2
Gain(values, k) == RMax(Zero, RSub(values[k], values[k - 1]))
Loss(values, k) == RMax(Zero, RSub(values[k - 1], values[k]))

\* C13: rsi returns a list as long as values; with len(values) < period+1
\* every entry is 50; otherwise the first period+1 entries are 50 and every
\* later entry is made of the two Wilder averages
\*   avg = (previous avg * (period-1) + gain or loss at the entry's index) / period,
\* which start from the means of the first period gains and losses (1e-9 for
\* a mean loss of 0).
C13_RsiShape ==
    Returned("rsi") =>
        LET v == call.values
            p == call.period
            out == call.out
            seed_up == RDiv(RSum([k \in 1..p |-> Gain(v, k + 1)]), RInt(p))
            mean_down == RDiv(RSum([k \in 1..p |-> Loss(v, k + 1)]), RInt(p))
            seed_down == IF mean_down = Zero THEN <<1, 1000000000>>
                         ELSE mean_down
        IN  /\ Len(out) = Len(v)
            /\ Len(v) < p + 1 => \A k \in 1..Len(v) : out[k] = Neutral
            /\ Len(v) >= p + 1 =>
                  /\ \A k \in 1..(p + 1) : out[k] = Neutral
                  /\ \A k \in (p + 2)..Len(v) :
                        LET up == IF k = p + 2 THEN seed_up
                                  ELSE out[k - 1].up_avg
                            down == IF k = p + 2 THEN seed_down
                                    ELSE out[k - 1].down_avg
                        IN  out[k] =
                              Smoothed(RDiv(RAdd(RMul(up, RInt(p - 1)),
                                                 Gain(v, k)), RInt(p)),
                                       RDiv(RAdd(RMul(down, RInt(p - 1)),
                                                 Loss(v, k)), RInt(p)))

\* C13 witness: rsi has returned a list whose last two entries are computed
\* and differ.
C13_Witness ==
    /\ Returned("rsi")
    /\ Len(call.values) >= call.period + 3
    /\ ~call.out[Len(call.out)].neutral
    /\ call.out[Len(call.out)] # call.out[Len(call.out) - 1]

\* the windowed-mean property of sma: output j (0-based) is the mean of
\* values[j .. j+period-1]
SmaWindows(values, period, out) ==
    \A k \in 1..Len(out) : out[k] = Mean(values, k, k + period - 1)

\* C14 as stated: the list sma returns is period-1 elements shorter than
\* values, and for every i >= period-1 its entry i-(period-1) is the mean of
\* values[i-period+1 .. i].
C14_SmaShorterByPeriodLessOne ==
    Returned("sma") =>
        /\ Len(call.out) = Len(call.values) - (call.period - 1)
        /\ SmaWindows(call.values, call.period, call.out)

\* C14 amended: the list sma returns has len(values)-(period-1) entries when
\* len(values) >= period-1 and is empty otherwise, and for every
\* i >= period-1 its entry i-(period-1) is the mean of values[i-period+1 .. i].
C14_SmaWindowMeans ==
    Returned("sma") =>
        /\ Len(call.values) >= call.period - 1 =>
              Len(call.out) = Len(call.values) - (call.period - 1)
        /\ Len(call.values) < call.period - 1 => call.out = <<>>
        /\ SmaWindows(call.values, call.period, call.out)

\* C14 witness: sma has returned three means of windows of three values,
\* not all equal.
C14_Witness ==
    /\ Returned("sma")
    /\ call.period = 3 /\ Len(call.out) = 3
    /\ call.out[1] # call.out[2] /\ call.out[2] # call.out[3]

\* C15: no step of a call of run_backtest writes the module state (balance,
\* current_trade, trades, stats), and of two calls interleaved in any order
\* each returns what run_backtest returns for its arguments when it runs on
\* its own; so the same arguments give the same result.
C15_RunsIndependent ==
    [][/\ UNCHANGED module_state
       /\ (pc' = "done") =>
            result' = run_backtest(candles', initial_balance',
                                   risk_per_trade', stop_loss_pct')
       /\ (peer' # None /\ peer'.pc = "done") =>
            peer'.result = run_backtest(peer'.candles, peer'.initial_balance,
                                        peer'.risk_per_trade,
                                        peer'.stop_loss_pct)]_vars

\* C15 witness: one call has returned a result with a trade while the other,
\* with other arguments, is in the middle of its loop with a position open.
C15_Witness ==
    /\ pc = "done" /\ result.trades # <<>>
    /\ peer # None /\ peer.pc = "loop" /\ peer.i = 3
    /\ peer.position # None
    /\ peer.candles # candles

====
